---- MODULE Spec2Model ----
(***************************************************************************)
(* Model of men.gov.py: a poller that fetches the ministry's announcement  *)
(* feed, diffs it against the last seen announcement id kept in a state    *)
(* file, and notifies a console report, a desktop popup and a Telegram     *)
(* chat about the new announcements.                                       *)
(*                                                                         *)
(* Python strings are sequences of one-character strings, so that strip,   *)
(* str.replace and concatenation are computed and not assumed.  A Python   *)
(* value is a record [kind, text]: kind "str" (text is the string), "int"  *)
(* (text is its decimal form, what str() gives), "none" (None / JSON null) *)
(* or "missing" (the key is not in the dict).  Values of different kinds   *)
(* are never equal, as 7 == "7" is False in Python.                        *)
(***************************************************************************)
EXTENDS Integers, Sequences, FiniteSets, TLC

\* Longest feed a fetch returns.
MaxFeed == 3
PyStr(s) == [kind |-> "str", text |-> s]
PyInt(s) == [kind |-> "int", text |-> s]
None == [kind |-> "none", text |-> <<>>]
Missing == [kind |-> "missing", text |-> <<>>]

\* dict.get(key, default): the default only when the key is missing; a key
\* that holds null gives None.
get(field, default) == IF field = Missing THEN default ELSE field

\* Python truthiness of a value: None, "" and a missing key (get -> None) are falsy.
truthy(v) == v.kind \in {"str", "int"} /\ v.text # <<>> /\ v # PyInt(<<"0">>)

\* str(x) of a str or an int.
str(v) == v.text

Whitespace == {" ", "\n"}

RECURSIVE lstrip(_)
lstrip(s) == IF s # <<>> /\ Head(s) \in Whitespace THEN lstrip(Tail(s)) ELSE s

RECURSIVE rstrip(_)
rstrip(s) ==
  IF s # <<>> /\ s[Len(s)] \in Whitespace THEN rstrip(SubSeq(s, 1, Len(s) - 1)) ELSE s

\* str.strip()
strip(s) == rstrip(lstrip(s))

\* str.replace(old, new) for a one-character old.
RECURSIVE replace(_, _, _)
replace(s, old, new) ==
  IF s = <<>> THEN <<>>
  ELSE (IF Head(s) = old THEN new ELSE <<Head(s)>>) \o replace(Tail(s), old, new)

\* list(reversed(xs))
reversed(xs) == [i \in 1..Len(xs) |-> xs[Len(xs) + 1 - i]]

----------------------------------------------------------------------------
\* The announcements the ministry has published or will publish.  An
\* announcement is immutable; only its presence and place in the feed change.
AnnA == [id |-> PyStr(<<"A">>), title_fr |-> PyStr(<<"<", "&">>), pdf |-> Missing]
AnnB == [id |-> PyStr(<<"B">>), title_fr |-> Missing,
         pdf |-> [kind |-> "list",
                  text |-> <<[url |-> PyStr(<<"u", "&", "v">>), label_fr |-> PyStr(<<"L", ">">>)]>>]]
Ann7 == [id |-> PyInt(<<"7">>), title_fr |-> PyStr(<<"t">>),
         pdf |-> [kind |-> "list", text |-> <<>>]]
AnnC == [id |-> PyStr(<<"C">>), title_fr |-> None, pdf |-> Missing]

Pool == {AnnA, AnnB, Ann7, AnnC}

\* Feeds: newest first, ids unique, at most MaxFeed entries.
Feeds ==
  UNION {{f \in [1..n -> Pool] : \A i, j \in 1..n : i # j => f[i] # f[j]} : n \in 0..MaxFeed}

ids(items) == [i \in 1..Len(items) |-> items[i].id]

----------------------------------------------------------------------------
\* Configuration read from the environment when the module is imported.
Unset == "<unset>"
EnvTokens == {Unset, "YOUR_BOT_TOKEN_HERE", "1:tok"}
EnvChats == {Unset, "YOUR_CHAT_ID_HERE"}

VARIABLES
  pc,               \* where the process is: "load", "check", "notify", "save_open",
                    \* "save_write", "sleep", "exit"
  exc,              \* the exception that ended the process, "none" while it runs
  env_token,        \* os.environ's TELEGRAM_BOT_TOKEN
  env_chat,         \* os.environ's TELEGRAM_CHAT_ID
  STATE_FILE,       \* last_announcement_id.txt: [exists, text]
  last_seen_id,     \* main's last_seen_id
  given_id,         \* check_once's parameter last_seen_id in the latest call
  file0,            \* STATE_FILE as it was when the latest call began
  fetched,          \* the latest call's fetch_announcements returned
  announcements,    \* what it returned
  new_items,        \* check_once's new_items
  items_to_display, \* notify_new_announcements' items_to_display
  telegram_message, \* the message built for Telegram, as pieces [src, text]
  console,          \* ids of the report blocks printed to the terminal
  log,              \* the status lines the latest call printed
  desktop_calls,    \* notify-send invocations of the latest call
  telegram_posts,   \* POSTs to the Bot API of the latest call
  returned,         \* the latest call returned to main
  restarted,        \* the process was started again since the latest call began
  repeat,           \* the latest call fetched the feed the call before it fetched
  server,           \* SpecGrow: the feed the site serves, which only grows at the front
  base,             \* SpecGrow: [set, feed], the feed this run initialized on
  batches           \* SpecGrow: the ids given to notify_new_announcements in this run

\* What SpecGrow follows of a run whose feed only grows; Spec, where each fetch
\* may return any feed, leaves the three as Init made them.
growth == <<server, base, batches>>

vars ==
  <<pc, exc, env_token, env_chat, STATE_FILE, last_seen_id, given_id, file0, fetched,
    announcements, new_items, items_to_display, telegram_message, console, log,
    desktop_calls, telegram_posts, returned, restarted, repeat, server, base, batches>>

TELEGRAM_BOT_TOKEN ==
  IF env_token = Unset THEN "7769758682:<the token of line 16>" ELSE env_token

TELEGRAM_CHAT_ID == IF env_chat = Unset THEN "2035257746" ELSE env_chat

NoFile == [exists |-> FALSE, text |-> <<>>]
File(t) == [exists |-> TRUE, text |-> t]

\* A slip in line 36: an empty feed gives "" instead of None.
get_latest_id_blank(anns) == IF anns = <<>> THEN PyStr(<<>>) ELSE anns[1].id

\* A slip in line 37: the last entry instead of the first.
get_latest_id_oldest(anns) == IF anns = <<>> THEN None ELSE anns[Len(anns)].id

get_latest_id(anns) == IF anns = <<>> THEN None ELSE anns[1].id

load_last_id(f) ==
  IF ~f.exists THEN None
  ELSE IF strip(f.text) = <<>> THEN None ELSE PyStr(strip(f.text))

\* A slip in line 47: the file is opened for writing and nothing is written.
save_last_id_empty(last_id) == File(<<>>)

\* What save_last_id leaves in the file once write_text has returned.
save_last_id(last_id) == File(str(last_id))

format_telegram_text_html(text) ==
  replace(replace(replace(text, "&", <<"&", "a", "m", "p", ";">>),
                  "<", <<"&", "l", "t", ";">>),
          ">", <<"&", "g", "t", ";">>)

----------------------------------------------------------------------------
\* notify_new_announcements

\* A piece of the f-strings that build the message: a literal of the program,
\* kept whole, or a value taken from the feed, one character per element.
Lit(chunk) == [src |-> "literal", text |-> <<chunk>>]
Put(src, chars) == [src |-> src, text |-> chars]

base_url == "https://www.men.gov.ma/"

title_of(a) == get(a.title_fr, PyStr(<<"Announcement">>))
pdfs_of(a) == IF a.pdf.kind = "list" THEN a.pdf.text ELSE <<>>

\* Line 119: pdfs and pdfs[0].get('url')
has_link(a) == pdfs_of(a) # <<>> /\ truthy(get(pdfs_of(a)[1].url, None))
label_of(a) == get(pdfs_of(a)[1].label_fr, PyStr(<<"View Document">>))

\* Lines 110-125 raise for this item: .replace on a title or label that is
\* not a str (AttributeError), or base_url + a url that is not a str (TypeError).
message_raises(a) ==
  \/ title_of(a).kind # "str"
  \/ has_link(a) /\ (label_of(a).kind # "str" \/ pdfs_of(a)[1].url.kind # "str")

\* Lines 137-141 raise for this item: p["url"] of an entry without url
\* (KeyError) or base_url + a url that is not a str (TypeError).
terminal_raises(a) == \E i \in 1..Len(pdfs_of(a)) : pdfs_of(a)[i].url.kind # "str"

\* Lines 114-125 for one item that does not raise.
item_block(a) ==
  << Lit("\n\n- <b>ID: "), Put("id", str(a.id)), Lit("</b>"),
     Lit("\n  <b>"), Put("title_fr", format_telegram_text_html(title_of(a).text)),
     Lit("</b>") >>
  \o (IF has_link(a)
      THEN << Lit("\n  <a href='"), Put("url", <<base_url>> \o pdfs_of(a)[1].url.text),
              Lit("'>"), Put("label_fr", format_telegram_text_html(label_of(a).text)),
              Lit("</a>") >>
      ELSE <<>>)

RECURSIVE blocks(_)
blocks(items) == IF items = <<>> THEN <<>> ELSE item_block(Head(items)) \o blocks(Tail(items))

\* Lines 106-125 for a batch none of whose items raises.
build_message(items) ==
  << Lit("<b>"), Put("count", <<ToString(Len(items))>>),
     Lit(" New MEN Announcement(s)!</b>\n") >> \o blocks(reversed(items))

\* The report blocks the terminal loop begins: all of them, or those up to and
\* including the first item whose pdf list raises.
printed(items) ==
  IF \E i \in 1..Len(items) : terminal_raises(items[i])
  THEN SubSeq(items, 1, CHOOSE i \in 1..Len(items) :
                          /\ terminal_raises(items[i])
                          /\ \A j \in 1..(i - 1) : ~terminal_raises(items[j]))
  ELSE items

\* Line 69
telegram_configured ==
  ~(TELEGRAM_BOT_TOKEN = "YOUR_BOT_TOKEN_HERE" \/ TELEGRAM_CHAT_ID = "YOUR_CHAT_ID_HERE")

----------------------------------------------------------------------------
\* check_once

\* Lines 178-180: the first index holding the id, 0 for StopIteration.
index_of_last_seen(anns, last) ==
  IF \E i \in 1..Len(anns) : anns[i].id = last
  THEN CHOOSE i \in 1..Len(anns) :
         anns[i].id = last /\ \A j \in 1..(i - 1) : anns[j].id # last
  ELSE 0

\* A slip in line 183: the slice takes the marker's entry too.
diff_inclusive(anns, last) ==
  IF index_of_last_seen(anns, last) = 0 THEN anns
  ELSE SubSeq(anns, 1, index_of_last_seen(anns, last))

\* Lines 176-188: the batch.
diff(anns, last) ==
  IF index_of_last_seen(anns, last) = 0 THEN anns
  ELSE SubSeq(anns, 1, index_of_last_seen(anns, last) - 1)

\* A slip in lines 198-201: the id saved and returned is the oldest entry's.
latest_id_oldest == announcements[Len(announcements)].id

\* check_once's latest_id, line 158.
latest_id == get_latest_id(announcements)

----------------------------------------------------------------------------
Init ==
  /\ pc = "load"
  /\ exc = "none"
  /\ env_token \in EnvTokens
  /\ env_chat \in EnvChats
  /\ STATE_FILE \in {NoFile, File(<<"A", "\n">>)}
  /\ last_seen_id = None
  /\ given_id = None
  /\ file0 = NoFile
  /\ fetched = FALSE
  /\ announcements = <<>>
  /\ new_items = <<>>
  /\ items_to_display = <<>>
  /\ telegram_message = <<>>
  /\ console = <<>>
  /\ log = {}
  /\ desktop_calls = 0
  /\ telegram_posts = 0
  /\ returned = FALSE
  /\ restarted = FALSE
  /\ repeat = "no"
  /\ server = <<>>
  /\ base = [set |-> FALSE, feed |-> <<>>]
  /\ batches = <<>>

\* Line 209, load_last_id returning.
LoadLastId ==
  /\ pc = "load"
  /\ last_seen_id' = load_last_id(STATE_FILE)
  /\ pc' = "check"
  /\ UNCHANGED <<exc, env_token, env_chat, STATE_FILE, given_id, file0, fetched,
                 announcements, new_items, items_to_display, telegram_message, console,
                 log, desktop_calls, telegram_posts, returned, restarted, repeat>>

\* Line 43, read_text raising (the file cannot be read or decoded): nothing
\* catches it.
LoadLastIdRaises ==
  /\ pc = "load"
  /\ STATE_FILE.exists
  /\ pc' = "exit"
  /\ exc' = "OSError"
  /\ UNCHANGED <<env_token, env_chat, STATE_FILE, last_seen_id, given_id, file0, fetched,
                 announcements, new_items, items_to_display, telegram_message, console,
                 log, desktop_calls, telegram_posts, returned, restarted, repeat>>

\* What every call of check_once starts from.
Called ==
  /\ pc = "check"
  /\ given_id' = last_seen_id
  /\ file0' = STATE_FILE
  /\ items_to_display' = <<>>
  /\ telegram_message' = <<>>
  /\ console' = <<>>
  /\ desktop_calls' = 0
  /\ telegram_posts' = 0
  /\ restarted' = FALSE
  /\ UNCHANGED <<exc, env_token, env_chat, STATE_FILE>>

\* A slip in lines 154-156: the handler returns None instead of the marker.
FetchRaisesForgets ==
  /\ Called
  /\ fetched' = FALSE
  /\ announcements' = <<>>
  /\ new_items' = <<>>
  /\ log' = {"error"}
  /\ repeat' = "no"
  /\ returned' = TRUE
  /\ last_seen_id' = None
  /\ pc' = "sleep"

\* Lines 152-156: fetch_announcements raises (network, status, JSON); the
\* call logs the error and returns the marker it was given.
FetchRaises ==
  /\ Called
  /\ last_seen_id' = last_seen_id
  /\ fetched' = FALSE
  /\ announcements' = <<>>
  /\ new_items' = <<>>
  /\ log' = {"error"}
  /\ repeat' = "no"
  /\ returned' = TRUE
  /\ pc' = "sleep"

\* Lines 152-192: the fetch returns the feed f, and the call runs up to its
\* return, its save_last_id or its notify_new_announcements.
Fetch(f) ==
  /\ Called
  /\ last_seen_id' = last_seen_id
  /\ fetched' = TRUE
  /\ announcements' = f
  /\ repeat' = IF returned /\ fetched /\ f = announcements
               THEN IF ~restarted THEN "same_process"
                    ELSE IF log \cap {"init", "updated"} # {} THEN "restart_saved"
                    ELSE "restart"
               ELSE "no"
  /\ IF get_latest_id(f) = None
     THEN /\ log' = {"no_results"}
          /\ new_items' = <<>>
          /\ returned' = TRUE
          /\ pc' = "sleep"
     ELSE IF last_seen_id = None
     THEN /\ log' = {}
          /\ new_items' = <<>>
          /\ returned' = FALSE
          /\ pc' = "save_open"
     ELSE IF get_latest_id(f) = last_seen_id
     THEN /\ log' = {"no_new"}
          /\ new_items' = <<>>
          /\ returned' = TRUE
          /\ pc' = "sleep"
     ELSE /\ new_items' = diff(f, last_seen_id)
          /\ IF diff(f, last_seen_id) = <<>>
             THEN /\ log' = {"no_new_index"}
                  /\ returned' = TRUE
                  /\ pc' = "sleep"
             ELSE /\ log' = IF index_of_last_seen(f, last_seen_id) = 0
                            THEN {"not_found"} ELSE {}
                  /\ returned' = FALSE
                  /\ pc' = "notify"

\* Lines 92-142 raising while an item is rendered: nothing in
\* notify_new_announcements, check_once or main catches it.
NotifyRaises ==
  /\ pc = "notify"
  /\ \E i \in 1..Len(new_items) : message_raises(new_items[i]) \/ terminal_raises(new_items[i])
  /\ items_to_display' = reversed(new_items)
  /\ log' = log \cup {"found"}
  /\ IF \E i \in 1..Len(new_items) : message_raises(new_items[i])
     THEN /\ exc' = "AttributeError"
          /\ UNCHANGED <<telegram_message, console>>
     ELSE /\ exc' = "KeyError"
          /\ telegram_message' = build_message(new_items)
          /\ console' = ids(printed(reversed(new_items)))
  /\ pc' = "exit"
  /\ UNCHANGED <<env_token, env_chat, STATE_FILE, last_seen_id, given_id, file0, fetched,
                 announcements, new_items, desktop_calls, telegram_posts, returned,
                 restarted, repeat>>

\* Lines 50-55: notify-send runs, or subprocess.run raises and is caught.
send_desktop_notification(raises) == IF raises THEN {"warn_notify_send"} ELSE {}

\* Lines 67-87: skipped on a placeholder configuration; else one POST, which
\* succeeds or raises a RequestException that is caught.
send_telegram_notification(raises) ==
  IF ~telegram_configured THEN {"warn_telegram_config"}
  ELSE IF raises THEN {"error_telegram"} ELSE {"telegram_sent"}

\* A slip in lines 194-198: the marker is saved while the notification runs.
NotifySaving ==
  /\ pc = "notify"
  /\ \A i \in 1..Len(new_items) : ~message_raises(new_items[i]) /\ ~terminal_raises(new_items[i])
  /\ STATE_FILE' = save_last_id(latest_id)
  /\ items_to_display' = reversed(new_items)
  /\ telegram_message' = build_message(new_items)
  /\ console' = ids(reversed(new_items))
  /\ log' = log \cup {"found"}
  /\ pc' = "notify"
  /\ UNCHANGED <<exc, env_token, env_chat, last_seen_id, given_id, file0, fetched,
                 announcements, new_items, desktop_calls, telegram_posts, returned,
                 restarted, repeat>>

\* Line 195: notify_new_announcements runs to its end.
Notify ==
  /\ pc = "notify"
  /\ \A i \in 1..Len(new_items) : ~message_raises(new_items[i]) /\ ~terminal_raises(new_items[i])
  /\ items_to_display' = reversed(new_items)
  /\ telegram_message' = build_message(new_items)
  /\ console' = ids(reversed(new_items))
  /\ desktop_calls' = desktop_calls + 1
  /\ telegram_posts' = IF telegram_configured THEN telegram_posts + 1 ELSE telegram_posts
  /\ \E d, t \in BOOLEAN :
       log' = log \cup {"found"} \cup send_desktop_notification(d)
                  \cup send_telegram_notification(t)
  /\ pc' = "save_open"
  /\ UNCHANGED <<exc, env_token, env_chat, STATE_FILE, last_seen_id, given_id, file0,
                 fetched, announcements, new_items, returned, restarted, repeat>>

\* Line 47: write_text opens the file for writing, which creates or empties it.
SaveOpen ==
  /\ pc = "save_open"
  /\ STATE_FILE' = File(<<>>)
  /\ pc' = "save_write"
  /\ UNCHANGED <<exc, env_token, env_chat, last_seen_id, given_id, file0, fetched,
                 announcements, new_items, items_to_display, telegram_message, console,
                 log, desktop_calls, telegram_posts, returned, restarted, repeat>>

\* Line 47: the open raises (permission denied).
SaveOpenRaises ==
  /\ pc = "save_open"
  /\ pc' = "exit"
  /\ exc' = "OSError"
  /\ UNCHANGED <<env_token, env_chat, STATE_FILE, last_seen_id, given_id, file0, fetched,
                 announcements, new_items, items_to_display, telegram_message, console,
                 log, desktop_calls, telegram_posts, returned, restarted, repeat>>

\* Lines 166-168 and 198-201: the text is written, and check_once logs and
\* returns latest_id to main (line 212).
SaveWrite ==
  /\ pc = "save_write"
  /\ STATE_FILE' = save_last_id(latest_id)
  /\ log' = log \cup {IF given_id = None THEN "init" ELSE "updated"}
  /\ last_seen_id' = latest_id
  /\ returned' = TRUE
  /\ pc' = "sleep"
  /\ UNCHANGED <<exc, env_token, env_chat, given_id, file0, fetched, announcements,
                 new_items, items_to_display, telegram_message, console, desktop_calls,
                 telegram_posts, restarted, repeat>>

\* A slip in lines 198-201: the write's error is caught and the call goes on
\* to return latest_id.
SaveWriteRaisesCaught ==
  /\ pc = "save_write"
  /\ log' = log \cup {IF given_id = None THEN "init" ELSE "updated"}
  /\ last_seen_id' = latest_id
  /\ returned' = TRUE
  /\ pc' = "sleep"
  /\ UNCHANGED <<exc, env_token, env_chat, STATE_FILE, given_id, file0, fetched,
                 announcements, new_items, items_to_display, telegram_message, console,
                 desktop_calls, telegram_posts, restarted, repeat>>

\* Line 47: the write raises (disk full) and leaves the file as the open made it.
SaveWriteRaises ==
  /\ pc = "save_write"
  /\ pc' = "exit"
  /\ exc' = "OSError"
  /\ UNCHANGED <<env_token, env_chat, STATE_FILE, last_seen_id, given_id, file0, fetched,
                 announcements, new_items, items_to_display, telegram_message, console,
                 log, desktop_calls, telegram_posts, returned, restarted, repeat>>

\* Lines 211-213: the sleep ends and the loop calls check_once again.
Sleep ==
  /\ pc = "sleep"
  /\ pc' = "check"
  /\ UNCHANGED <<exc, env_token, env_chat, STATE_FILE, last_seen_id, given_id, file0,
                 fetched, announcements, new_items, items_to_display, telegram_message,
                 console, log, desktop_calls, telegram_posts, returned, restarted, repeat>>

\* Lines 216-220: Ctrl + C at any point of the run.
KeyboardInterrupt ==
  /\ pc # "exit"
  /\ pc' = "exit"
  /\ exc' = "KeyboardInterrupt"
  /\ UNCHANGED <<env_token, env_chat, STATE_FILE, last_seen_id, given_id, file0, fetched,
                 announcements, new_items, items_to_display, telegram_message, console,
                 log, desktop_calls, telegram_posts, returned, restarted, repeat>>

\* The program is started again: memory is lost, the state file is kept.
Start ==
  /\ pc = "exit"
  /\ pc' = "load"
  /\ exc' = "none"
  /\ last_seen_id' = None
  /\ restarted' = TRUE
  /\ UNCHANGED <<env_token, env_chat, STATE_FILE, given_id, file0, fetched, announcements,
                 new_items, items_to_display, telegram_message, console, log,
                 desktop_calls, telegram_posts, returned, repeat>>

Next ==
  \/ (LoadLastId) /\ UNCHANGED growth
  \/ (LoadLastIdRaises) /\ UNCHANGED growth
  \/ (FetchRaises) /\ UNCHANGED growth
  \/ (\E f \in Feeds : Fetch(f)) /\ UNCHANGED growth
  \/ (NotifyRaises) /\ UNCHANGED growth
  \/ (Notify) /\ UNCHANGED growth
  \/ (SaveOpen) /\ UNCHANGED growth
  \/ (SaveOpenRaises) /\ UNCHANGED growth
  \/ (SaveWrite) /\ UNCHANGED growth
  \/ (SaveWriteRaises) /\ UNCHANGED growth
  \/ (Sleep) /\ UNCHANGED growth
  \/ (KeyboardInterrupt) /\ UNCHANGED growth
  \/ (Start) /\ UNCHANGED growth

Spec == Init /\ [][Next]_vars

----------------------------------------------------------------------------
\* One run of the program, from its start to its end, against a site whose
\* feed changes only by gaining announcements with fresh ids at the front.

\* The site publishes an announcement it has not published before.
Publish ==
  /\ pc # "exit"
  /\ Len(server) < MaxFeed
  /\ \E a \in Pool :
       /\ \A i \in 1..Len(server) : server[i] # a
       /\ server' = <<a>> \o server
  /\ UNCHANGED <<pc, exc, env_token, env_chat, STATE_FILE, last_seen_id, given_id, file0,
                 fetched, announcements, new_items, items_to_display, telegram_message,
                 console, log, desktop_calls, telegram_posts, returned, restarted, repeat,
                 base, batches>>

\* Lines 152-192 on the site's feed; a call given no marker that gets a
\* non-empty feed is the run's initialization (lines 164-168).
GrowFetch ==
  /\ Fetch(server)
  /\ base' = IF last_seen_id = None /\ server # <<>>
             THEN [set |-> TRUE, feed |-> server]
             ELSE base
  /\ UNCHANGED <<server, batches>>

\* Line 195: notify_new_announcements is given the batch, and returns.
GrowNotify ==
  /\ Notify
  /\ batches' = batches \o ids(new_items)
  /\ UNCHANGED <<server, base>>

\* Line 195: notify_new_announcements is given the batch, and raises.
GrowNotifyRaises ==
  /\ NotifyRaises
  /\ batches' = batches \o ids(new_items)
  /\ UNCHANGED <<server, base>>

\* The run's steps; those that touch neither the site's feed nor a batch are
\* as in Next, and the run is not started again.
NextGrow ==
  \/ Publish
  \/ GrowFetch
  \/ GrowNotify
  \/ GrowNotifyRaises
  \/ (LoadLastId) /\ UNCHANGED growth
  \/ (LoadLastIdRaises) /\ UNCHANGED growth
  \/ (FetchRaises) /\ UNCHANGED growth
  \/ (SaveOpen) /\ UNCHANGED growth
  \/ (SaveOpenRaises) /\ UNCHANGED growth
  \/ (SaveWrite) /\ UNCHANGED growth
  \/ (SaveWriteRaises) /\ UNCHANGED growth
  \/ (Sleep) /\ UNCHANGED growth
  \/ (KeyboardInterrupt) /\ UNCHANGED growth

SpecGrow == Init /\ [][NextGrow]_vars

----------------------------------------------------------------------------
\* What the properties below speak of.

\* No sink has been invoked by the latest call.
NoSink ==
  /\ "found" \notin log
  /\ console = <<>>
  /\ telegram_message = <<>>
  /\ desktop_calls = 0
  /\ telegram_posts = 0

\* The latest call has returned and main still holds what it returned.
Back == returned /\ ~restarted

\* The process has ended, and not by an error of the state file or Ctrl + C.
Crashed == pc = "exit" /\ ~restarted /\ exc \notin {"OSError", "KeyboardInterrupt"}

\* The marker the latest call was given is the id of no entry of its feed.
NotInFeed == \A i \in 1..Len(announcements) : announcements[i].id # given_id

\* The ids of the message's item blocks, in the order of the message.
RECURSIVE ids_in(_)
ids_in(message) ==
  IF message = <<>> THEN <<>>
  ELSE (IF Head(message).src = "id" THEN <<Head(message).text>> ELSE <<>>)
       \o ids_in(Tail(message))

\* No raw '<' or '>', and every '&' begins &amp; &lt; or &gt;.
Escaped(chars) ==
  \A i \in 1..Len(chars) :
    /\ chars[i] \notin {"<", ">"}
    /\ chars[i] = "&" =>
         \/ i + 4 <= Len(chars) /\ SubSeq(chars, i, i + 4) = <<"&", "a", "m", "p", ";">>
         \/ i + 3 <= Len(chars) /\ SubSeq(chars, i, i + 3) \in {<<"&", "l", "t", ";">>,
                                                                <<"&", "g", "t", ";">>}

----------------------------------------------------------------------------
\* C1: idempotence of check_once.  When a call fetches the feed that the call
\* before it, in the same run of the program, fetched and returned from, it
\* passes nothing to notify_new_announcements, invokes no sink, and leaves the
\* state file and main's marker as they were.
C1_Idempotent ==
  (repeat = "same_process" /\ ~restarted) =>
    /\ pc \in {"sleep", "check", "exit"}
    /\ returned
    /\ new_items = <<>>
    /\ NoSink
    /\ STATE_FILE = file0
    /\ last_seen_id = given_id

\* C1 witness: a second call on the same non-empty feed has returned, the
\* marker being the feed's newest id.
C1_Witness ==
  /\ repeat = "same_process"
  /\ pc = "sleep"
  /\ Len(announcements) >= 2
  /\ last_seen_id = announcements[1].id

\* C2: initialization.  A call given no marker invokes no sink; when its fetch
\* returns a non-empty feed it either ends the process on a state-file error
\* or an interrupt, or writes Feed[0].id to the state file and returns it.
C2_Initialization ==
  given_id = None =>
    /\ NoSink
    /\ new_items = <<>>
    /\ pc # "notify"
    /\ ~Crashed
    /\ (fetched /\ announcements # <<>>) =>
         /\ ~returned /\ ~restarted => pc \in {"save_open", "save_write", "exit"}
         /\ returned =>
              /\ "init" \in log
              /\ STATE_FILE = File(str(announcements[1].id))
              /\ ~restarted => last_seen_id = announcements[1].id

\* C2 witness: a first run has initialized on a feed of several entries.
C2_Witness ==
  /\ given_id = None
  /\ pc = "sleep"
  /\ Len(announcements) >= 2
  /\ STATE_FILE = File(str(announcements[1].id))
  /\ last_seen_id = announcements[1].id

\* C3: the diff when the marker is in the feed.  When the first entry whose id
\* is the marker is at index k >= 1 (k + 1 counting from 1), the batch is
\* Feed[0..k) in feed order, and once notify_new_announcements has begun the
\* order of display, of the console report and of the chat message is its
\* exact reverse.
C3_DiffFound ==
  \A k \in 2..Len(announcements) :
    (/\ fetched
     /\ given_id # None
     /\ announcements[k].id = given_id
     /\ \A j \in 1..(k - 1) : announcements[j].id # given_id) =>
      /\ new_items = SubSeq(announcements, 1, k - 1)
      /\ \/ pc = "notify"
         \/ "found" \in log
         \/ exc = "KeyboardInterrupt"
         \/ restarted
      /\ "found" \in log =>
           /\ items_to_display = [i \in 1..(k - 1) |-> announcements[k - i]]
           /\ console # <<>> => console = [i \in 1..(k - 1) |-> announcements[k - i].id]
           /\ telegram_message # <<>> =>
                ids_in(telegram_message) = [i \in 1..(k - 1) |-> str(announcements[k - i].id)]

\* C3 witness: a feed of three with the marker last, two new items reported
\* on the console and in the chat message.
C3_Witness ==
  /\ fetched
  /\ Len(announcements) = 3
  /\ announcements[3].id = given_id
  /\ Len(new_items) = 2
  /\ Len(console) = 2
  /\ Len(ids_in(telegram_message)) = 2

\* C4: the stale-marker fallback.  A marker that is the id of no entry of a
\* non-empty feed makes the whole feed the batch and logs the stale-marker
\* warning, which no call that finds its marker logs; the process does not
\* end but by a state-file error or an interrupt, and when the call returns
\* the state file and main's marker hold Feed[0].id.
C4_StaleFallback ==
  /\ (fetched /\ given_id # None /\ announcements # <<>> /\ NotInFeed) =>
       /\ new_items = announcements
       /\ "not_found" \in log
       /\ ~Crashed
       /\ returned => STATE_FILE = File(str(announcements[1].id))
       /\ Back => last_seen_id = announcements[1].id
  /\ ~NotInFeed => "not_found" \notin log

\* C5: fetch resilience.  When fetch_announcements raises, check_once returns
\* the marker it was given, writes nothing to the state file, invokes no sink
\* and raises nothing.
C5_FetchResilience ==
  "error" \in log =>
    /\ ~fetched
    /\ returned
    /\ pc \in {"sleep", "check", "load", "exit"}
    /\ ~Crashed
    /\ NoSink
    /\ new_items = <<>>
    /\ STATE_FILE = file0
    /\ ~restarted => last_seen_id = given_id

\* C5 witness: a call whose fetch failed has returned, the marker being set.
C5_Witness ==
  /\ "error" \in log
  /\ pc = "sleep"
  /\ last_seen_id # None
  /\ STATE_FILE.exists

\* C6: best-effort notification.  Once notify_new_announcements has begun,
\* both sinks are attempted whatever fails, the process does not end but by a
\* state-file error or an interrupt, and when the call returns the state file
\* holds Feed[0].id.
C6_BestEffort ==
  "found" \in log =>
    /\ desktop_calls = 1
    /\ telegram_configured => telegram_posts = 1
    /\ ~Crashed
    /\ returned => STATE_FILE = File(str(announcements[1].id))

\* C7: the no-op cycle.  When the feed is non-empty and Feed[0].id is the
\* marker, the call reports "No new announcement." and nothing else, invokes
\* no sink, writes nothing to the state file and returns the same marker.
C7_NoOp ==
  (fetched /\ announcements # <<>> /\ announcements[1].id = given_id) =>
    /\ log = {"no_new"}
    /\ returned
    /\ new_items = <<>>
    /\ NoSink
    /\ STATE_FILE = file0
    /\ ~restarted => last_seen_id = given_id

\* C7 witness: a no-op call on a feed of several entries has returned.
C7_Witness ==
  /\ fetched
  /\ Len(announcements) >= 2
  /\ announcements[1].id = given_id
  /\ pc = "sleep"

\* C8: restart transparency.  After a call that persisted a marker, a stop
\* and a new start of the program, the first call, fetching the unchanged
\* feed, sends no notification.
C8_RestartTransparent ==
  repeat = "restart_saved" => new_items = <<>> /\ NoSink

\* C9: chat-message escaping.  Every piece of text taken from the feed and put
\* into the chat message is escaped: no raw '<' or '>', and every '&' begins
\* one of the three entities.
C9_MessageEscaped ==
  \A i \in 1..Len(telegram_message) :
    telegram_message[i].src \in {"id", "title_fr", "url", "label_fr"} =>
      Escaped(SelectSeq(telegram_message[i].text, LAMBDA c : c # base_url))

\* C10: loop liveness.  Whatever a cycle's outcome, the loop stops only by a
\* state-file error or an external interrupt.
C10_LoopStopsOnlyOnStateErrorOrInterrupt ==
  pc = "exit" => exc \in {"OSError", "KeyboardInterrupt"}


\* The latest call's notify_new_announcements ran to its end: the report is
\* printed and the desktop sink was invoked.
Notified ==
  /\ "found" \in log
  /\ console = ids(reversed(new_items))
  /\ desktop_calls = 1

\* C11: notify, then persist.  In a call with new items the state file is as
\* the call found it until notify_new_announcements has returned, so a stop
\* of the process before the save leaves the old marker persisted.
C11_NotifyThenPersist ==
  new_items # <<>> =>
    /\ STATE_FILE # file0 => Notified
    /\ (pc = "notify" \/ ~Notified) => STATE_FILE = file0
    /\ pc \in {"save_open", "save_write"} => Notified

\* C11 witness: the process was stopped after the notification and before the
\* save, and the state file still holds the old marker.
C11_Witness ==
  /\ new_items # <<>>
  /\ Notified
  /\ pc = "exit"
  /\ exc = "KeyboardInterrupt"
  /\ ~returned
  /\ STATE_FILE = file0
  /\ file0.exists


\* C12: the empty feed.  When the fetch returns an empty feed the call reports
\* "No results" and nothing else, invokes no sink, writes nothing to the state
\* file and returns the marker it was given, an absent one included.
C12_EmptyFeed ==
  (fetched /\ announcements = <<>>) =>
    /\ log = {"no_results"}
    /\ returned
    /\ pc \in {"sleep", "check", "load", "exit"}
    /\ ~Crashed
    /\ new_items = <<>>
    /\ NoSink
    /\ STATE_FILE = file0
    /\ ~restarted => last_seen_id = given_id

\* C12 witness: a call given no marker has returned from an empty feed, the
\* marker still absent and no state file made.
C12_Witness ==
  /\ fetched
  /\ announcements = <<>>
  /\ pc = "sleep"
  /\ given_id = None
  /\ last_seen_id = None
  /\ ~STATE_FILE.exists


\* The text is the stripped text r between runs of whitespace.
StrippedOf(text, r) ==
  /\ r # <<>>
  /\ Head(r) \notin Whitespace
  /\ r[Len(r)] \notin Whitespace
  /\ \E i \in 1..Len(text) :
       /\ i + Len(r) - 1 <= Len(text)
       /\ SubSeq(text, i, i + Len(r) - 1) = r
       /\ \A j \in 1..Len(text) : (j < i \/ j > i + Len(r) - 1) => text[j] \in Whitespace

\* load_last_id gives absence exactly for no file or a file of whitespace, and
\* else the content without the whitespace around it.
C13_LoadStrips ==
  /\ load_last_id(STATE_FILE) = None <=>
       (~STATE_FILE.exists \/ \A i \in 1..Len(STATE_FILE.text) : STATE_FILE.text[i] \in Whitespace)
  /\ load_last_id(STATE_FILE) # None =>
       /\ load_last_id(STATE_FILE).kind = "str"
       /\ StrippedOf(STATE_FILE.text, load_last_id(STATE_FILE).text)

\* The latest call saved Feed[0].id and returned.
Saved == returned /\ log \cap {"init", "updated"} # {}

\* C13: the state store's round trip.  load_last_id gives absence exactly for
\* no file or a file of whitespace and else the stripped content, and after
\* save_last_id(id), whatever the file held before, load_last_id gives id.
C13_RoundTrip ==
  /\ C13_LoadStrips
  /\ Saved => load_last_id(STATE_FILE) = announcements[1].id


\* The process is not running: it ended, or was started again and has not
\* yet read the state file.
Stopped == pc = "exit" \/ (restarted /\ pc = "load")

\* C14: the atomic marker write.  Whenever the process has stopped in a call
\* that fetched a feed and did not return, in save_last_id or before it,
\* load_last_id gives what it gave when the call began or what it gives for
\* the id the call saves: never absence in place of a marker, never a partial
\* value.
C14_AtomicWrite ==
  (Stopped /\ fetched /\ ~returned) =>
    \/ load_last_id(STATE_FILE) = load_last_id(file0)
    \/ load_last_id(STATE_FILE) = load_last_id(save_last_id(latest_id))


\* C15: fatal state errors.  An error of the state file, in load_last_id or in
\* save_last_id, ends the process; and while the loop runs with a marker, the
\* state file holds that marker's text, so no cycle runs with a marker that
\* was not persisted.
C15_FatalStateErrors ==
  /\ exc = "OSError" => pc = "exit"
  /\ (pc \in {"check", "notify", "save_open", "sleep"} /\ last_seen_id # None) =>
       /\ STATE_FILE.exists
       /\ strip(STATE_FILE.text) = strip(str(last_seen_id))

\* C15 witness: save_last_id failed after a notification and the process has
\* ended with the error.
C15_Witness ==
  /\ pc = "exit"
  /\ exc = "OSError"
  /\ ~restarted
  /\ fetched
  /\ ~returned
  /\ Notified


\* C16: one notification per sink per cycle.  A call with no new items invokes
\* neither sink; once notify_new_announcements has begun on n >= 1 new items,
\* the desktop sink is invoked exactly once and the chat sink once when it is
\* configured and not at all when it is not, with one message that holds the
\* n items.
C16_OncePerSink ==
  /\ new_items = <<>> => desktop_calls = 0 /\ telegram_posts = 0
  /\ "found" \in log =>
       /\ desktop_calls = 1
       /\ telegram_posts = IF telegram_configured THEN 1 ELSE 0
       /\ ids_in(telegram_message) = [i \in 1..Len(new_items) |-> str(reversed(new_items)[i].id)]

\* C17: the marker tracks the newest id.  A call given a marker, whose fetch
\* returns a non-empty feed with another Feed[0].id, has a non-empty batch and
\* never reports "no new announcement found based on index"; the process does
\* not end but by a state-file error or an interrupt, and when the call
\* returns, the state file and main's marker hold Feed[0].id.
C17_MarkerTracksNewest ==
  (fetched /\ announcements # <<>> /\ given_id # None /\ announcements[1].id # given_id) =>
    /\ new_items # <<>>
    /\ "no_new_index" \notin log
    /\ ~Crashed
    /\ returned => "updated" \in log /\ STATE_FILE = File(str(announcements[1].id))
    /\ Back => last_seen_id = announcements[1].id


\* C19: the chat sink is disabled by default.  When the environment does not
\* supply the bot token or the chat id, a notification finds the placeholder
\* in the configuration, logs the warning and POSTs nothing.
C19_ChatDisabledByDefault ==
  (Notified /\ (env_token = Unset \/ env_chat = Unset)) =>
    /\ env_token = Unset => TELEGRAM_BOT_TOKEN = "YOUR_BOT_TOKEN_HERE"
    /\ env_chat = Unset => TELEGRAM_CHAT_ID = "YOUR_CHAT_ID_HERE"
    /\ "warn_telegram_config" \in log
    /\ telegram_posts = 0


\* How many times the id was given to notify_new_announcements in this run.
Count(id) == Cardinality({i \in 1..Len(batches) : batches[i] = id})

In(a, feed) == \E i \in 1..Len(feed) : feed[i] = a

\* C18: exactly-once delivery across the cycles of one run (SpecGrow).  Once
\* the run has initialized, no announcement is given to
\* notify_new_announcements twice, none of the feed it initialized on is given
\* at all, and every other announcement of a fetched feed has been given once
\* by the time that call's notification has begun or the call has returned,
\* whatever fetches failed in between.
C18_ExactlyOnce ==
  base.set =>
    \A a \in Pool :
      /\ Count(a.id) <= 1
      /\ In(a, base.feed) => Count(a.id) = 0
      /\ (/\ ~In(a, base.feed)
          /\ fetched
          /\ In(a, announcements)
          /\ returned \/ "found" \in log) => Count(a.id) = 1

\* C18 witness: after the initialization on one announcement, a first cycle
\* notified one new announcement, a fetch failed, and a later cycle notified
\* two more.
C18_Witness ==
  /\ base.set
  /\ Len(base.feed) = 1
  /\ pc = "sleep"
  /\ Len(announcements) = 3
  /\ Len(new_items) = 1
  /\ Len(batches) = 2

====
